---- MODULE Spec2Model ----
(***************************************************************************)
(* Presence-aware study timer (StudyPresence component).                   *)
(*                                                                         *)
(* The component is a React function component: every event handler,       *)
(* promise continuation and interval callback runs to completion on the    *)
(* single UI thread, and the re-render with its effects (bind effect,      *)
(* sampler effect, tick effect) follows before the next event.  Each       *)
(* action below is therefore one handler / continuation / callback         *)
(* together with the effects its state changes trigger.                    *)
(*                                                                         *)
(* Suspension points (the only places where other events interleave):      *)
(*   - await navigator.mediaDevices.getUserMedia(...)   (pendingAcq)       *)
(*   - await detector.detect(video)                     (inflight)         *)
(***************************************************************************)
EXTENDS Integers, Sequences, FiniteSets

\* ------------------------------------------------------------------ bounds
\* Tick callbacks the model follows (the per-second counter is unbounded).
MaxTicks == 3
\* Camera streams the platform hands out in one run.
MaxStreams == 2
\* getUserMedia requests that may be pending at once.
MaxPending == 2
\* detector.detect() calls that may be pending at once.
MaxInflight == 2

\* ------------------------------------------------------- program constants
\* new FaceDetector({ fastMode: true, maxDetectedFaces: 1 })
maxDetectedFaces == 1
\* const veryDark = avg < 25
darkThreshold == 25
\* const veryFlat = variance < 50
flatnessThreshold == 50

VARIABLES
    seconds,          \* useState(0)
    isRunning,        \* useState(true)
    isOnline,         \* useState(true), mirrored from navigator.onLine
    cameraEnabled,    \* useState(false)
    isUserPresent,    \* useState<boolean | null>(null): "null" | "true" | "false"
    cameraError,      \* useState<string | null>(null): "null" | message
    streamRef,        \* streamRef.current: 0 (null) or a stream id
    srcObject,        \* videoRef.current.srcObject: 0 (null / no element) or a stream id
    videoReady,       \* video.readyState >= 2 && videoWidth > 0 && videoHeight > 0
    mounted,          \* the component is mounted (FALSE after teardown)
    acquired,         \* number of streams getUserMedia has resolved with so far
    liveTracks,       \* ids of the streams whose tracks have not been stopped
    pendingAcq,       \* callers of the getUserMedia requests not yet settled, oldest first
    inflight,         \* checkPresence calls suspended in detect(): [live, cancelled] counts
    navigatorOnLine,  \* the platform's navigator.onLine
    hasMediaDevices,  \* navigator.mediaDevices?.getUserMedia exists
    hasFaceDetector,  \* window.FaceDetector exists
    onSecondsTickCalls, \* invocations of the injected onSecondsTick by the last step
    lastSample,       \* the sample computation the last step completed (outcome "none": none)
    uncaught,         \* the last step ended in an exception no handler of the component caught
    tickIntervalReset, \* the last step cleared and re-created the tick interval
    playRejected,     \* the last step was the rejection of video.play()
    lastToggle,       \* history: outcome of the most recent handleToggle call
    startMark         \* history: <<seconds at the last start with a camera, ticks since>>

vars == <<seconds, isRunning, isOnline, cameraEnabled, isUserPresent, cameraError,
          streamRef, srcObject, videoReady, mounted, acquired, liveTracks,
          pendingAcq, inflight, navigatorOnLine, hasMediaDevices, hasFaceDetector,
          onSecondsTickCalls, lastSample, uncaught, tickIntervalReset, playRejected,
          lastToggle, startMark>>

\* ------------------------------------------------------------ value spaces
Presence == {"null", "true", "false"}

ApiAbsentMessage == "Camera API not available in this browser."

AccessDeniedMessage == "Unable to access camera. Check permissions and try again."

Callers == {"toggle", "button"}

ToggleOutcomes == {"none", "stop", "start_pending", "start_ok", "start_fail", "start_noacq"}

NoMark == <<-1, -1>>

\* How a sample computation ended: it skipped the analysis (frame not decodable),
\* failed (detect or the analysis raised), classified the frame, or found itself
\* cancelled.  frame and faces are recorded by the frame-analysis specification.
SampleOutcomes == {"none", "skipped", "failed", "classified", "discarded"}

Sample(o) == [outcome |-> o, frame |-> <<>>, faces |-> 0]

NoSample == Sample("none")

\* Seconds the display specification starts from (100 minutes and more).
MaxDisplaySeconds == 6059

\* --------------------------------------------------- frame analysis (pure)
\* Pixels of the analysis canvas (160 x 90 in the program; a few in the model).
FramePixels == 2

\* <<r, g, b>> channel values of ImageData.
PixelValues == {<<0, 0, 0>>, <<255, 255, 255>>, <<10, 20, 60>>, <<50, 50, 50>>}

Frames == [1..FramePixels -> PixelValues]

\* 3 * lum of one pixel: lum = (r + g + b) / 3 is kept as the integer r + g + b.
Lum3(px) == px[1] + px[2] + px[3]

\* 3 * sum after the loop over the first n pixels (sum += lum).
RECURSIVE Sum3Upto(_, _)
Sum3Upto(f, n) == IF n = 0 THEN 0 ELSE Lum3(f[n]) + Sum3Upto(f, n - 1)

\* 9 * sumSq after the loop over the first n pixels (sumSq += lum * lum).
RECURSIVE SumSq9Upto(_, _)
SumSq9Upto(f, n) == IF n = 0 THEN 0 ELSE Lum3(f[n]) * Lum3(f[n]) + SumSq9Upto(f, n - 1)

Sum3(f) == Sum3Upto(f, Len(f))

SumSq9(f) == SumSq9Upto(f, Len(f))

\* avg < 25 with avg = sum / pixels, i.e. Sum3 / (3 * pixels) < 25.
veryDark(f) == Sum3(f) < darkThreshold * 3 * Len(f)

\* Variant: the comparison is the wrong way round.
veryFlat_reversed(f) ==
    Len(f) * SumSq9(f) - Sum3(f) * Sum3(f) > flatnessThreshold * 9 * Len(f) * Len(f)

\* variance < 50 with variance = sumSq / pixels - avg * avg, i.e.
\* (pixels * SumSq9 - Sum3^2) / (9 * pixels^2) < 50.
veryFlat(f) == Len(f) * SumSq9(f) - Sum3(f) * Sum3(f) < flatnessThreshold * 9 * Len(f) * Len(f)

\* Variant: the covered-camera heuristic is never consulted.
cameraCovered_never(f) == FALSE

cameraCovered(f) == veryDark(f) \/ veryFlat(f)

\* Variant: the detector is asked first and the heuristic only without one.
present_detectorFirst(covered, detector, facesCount) ==
    IF detector THEN facesCount > 0 ELSE ~covered

\* The decision chain: covered -> absent; detector -> facesCount > 0; else present.
present(covered, detector, facesCount) ==
    IF covered THEN FALSE
    ELSE IF detector THEN facesCount > 0
    ELSE TRUE

\* What a sample of a decodable frame can find for cameraCovered.
FrameCoverage == {cameraCovered(f) : f \in Frames}

BoolToPresence(b) == IF b THEN "true" ELSE "false"

\* Variant: the result is applied without looking at the cancelled flag.
applyPresence_ignoresCancelled(isCancelled, cur, value) == value

\* if (!cancelled) setIsUserPresent(value)
applyPresence(isCancelled, cur, value) == IF isCancelled THEN cur ELSE value

\* Variant: a raising analysis leaves the classification as it was.
analysisResult_failureKeeps(ready, throws, covered, detector, facesCount, isCancelled, cur) ==
    IF ~ready \/ throws THEN cur
    ELSE applyPresence(isCancelled, cur, BoolToPresence(present(covered, detector, facesCount)))

\* The part of checkPresence after detect(): the readiness test, the analysis,
\* the classification and the catch block.  ready: the video frame is decodable;
\* throws: drawImage / getImageData raised; covered: cameraCovered of the frame.
analysisResult(ready, throws, covered, detector, facesCount, isCancelled, cur) ==
    IF ~ready THEN cur
    ELSE IF throws THEN applyPresence(isCancelled, cur, "false")
    ELSE applyPresence(isCancelled, cur, BoolToPresence(present(covered, detector, facesCount)))

\* How that part of checkPresence ended.
sampleOutcome(ready, throws) ==
    IF ~ready THEN "skipped" ELSE IF throws THEN "failed" ELSE "classified"

\* ------------------------------------------------------------ derived state
\* Variant: only a lost face pauses; the not-yet-sampled state (null) does not.
isAutoPaused_onlyWhenAbsent == cameraEnabled /\ isUserPresent = "false"

isAutoPaused == cameraEnabled /\ isUserPresent # "true"

\* Variant: the auto-pause is not consulted.
isTimerActive_ignoresPause == isRunning

isTimerActive == isRunning /\ ~isAutoPaused

\* (the source's label has an en dash, written here as "-": strings are ASCII)
studyStatusLabel ==
    IF isTimerActive THEN "Studying"
    ELSE IF isAutoPaused THEN "Not studying - user not detected or camera covered"
    ELSE "Not studying"

\* Variant: the sampler runs whenever the camera is enabled.
samplerGuard_cameraOnly(cam, run) == cam

\* The sampler effect's guard; videoRef.current is set exactly while the
\* <video> element is rendered, i.e. while cameraEnabled.
samplerGuard(cam, run) == cam /\ run

\* Variant: the interval follows isRunning alone.
tickIntervalActive_ignoresPause == mounted /\ isRunning

\* The tick effect holds an interval exactly while isTimerActive (and mounted).
tickIntervalActive == mounted /\ isTimerActive

\* Variant: the cleanup clears the interval but leaves the calls uncancelled.
cancelAll_keepsLive(fl) == fl

\* cleanup of the sampler effect: cancelled = true for every call of that closure.
cancelAll(fl) == [live |-> 0, cancelled |-> fl.live + fl.cancelled]

\* Variant: the handle is dropped without stopping its tracks.
stopTracks_leavesLive(live, s) == live

\* tracks of stream s stopped: getTracks().forEach((t) => t.stop())
stopTracks(live, s) == live \ {s}

\* Variant: the handle is not cleared.
nullRef_keepsHandle == streamRef

\* streamRef.current = null
nullRef == 0

\* Variant: a release without a handle stops whatever is live.
releaseTracks_stopsAll(live, ref) == IF ref # 0 THEN stopTracks(live, ref) ELSE {}

\* if (streamRef.current) { streamRef.current.getTracks().forEach((t) => t.stop()) }
releaseTracks(live, ref) == IF ref # 0 THEN stopTracks(live, ref) ELSE live

\* ------------------------------------------------------------ initial state
\* Variant: the timer is created stopped.
Init_stopped ==
    /\ seconds = 0
    /\ isRunning = FALSE
    /\ navigatorOnLine \in BOOLEAN
    /\ isOnline = navigatorOnLine
    /\ cameraEnabled = FALSE
    /\ isUserPresent = "null"
    /\ cameraError = "null"
    /\ streamRef = 0
    /\ srcObject = 0
    /\ videoReady = FALSE
    /\ mounted = TRUE
    /\ acquired = 0
    /\ liveTracks = {}
    /\ pendingAcq = <<>>
    /\ inflight = [live |-> 0, cancelled |-> 0]
    /\ hasMediaDevices \in BOOLEAN
    /\ hasFaceDetector \in BOOLEAN
    /\ onSecondsTickCalls = 0
    /\ lastSample = NoSample
    /\ uncaught = FALSE
    /\ tickIntervalReset = FALSE
    /\ playRejected = FALSE
    /\ lastToggle = "none"
    /\ startMark = NoMark

\* The state after the first render and its mount effects (updateStatus() has
\* mirrored navigator.onLine; no other effect passes its guard).
Init ==
    /\ seconds = 0
    /\ isRunning = TRUE
    /\ navigatorOnLine \in BOOLEAN
    /\ isOnline = navigatorOnLine
    /\ cameraEnabled = FALSE
    /\ isUserPresent = "null"
    /\ cameraError = "null"
    /\ streamRef = 0
    /\ srcObject = 0
    /\ videoReady = FALSE
    /\ mounted = TRUE
    /\ acquired = 0
    /\ liveTracks = {}
    /\ pendingAcq = <<>>
    /\ inflight = [live |-> 0, cancelled |-> 0]
    /\ hasMediaDevices \in BOOLEAN
    /\ hasFaceDetector \in BOOLEAN
    /\ onSecondsTickCalls = 0
    /\ lastSample = NoSample
    /\ uncaught = FALSE
    /\ tickIntervalReset = FALSE
    /\ playRejected = FALSE
    /\ lastToggle = "none"
    /\ startMark = NoMark

\* ------------------------------------------------------------------ sampler
\* One call of checkPresence up to its first suspension.  With a detector the
\* call suspends in detect(); without one it runs to its end synchronously.
\* fl: the in-flight calls before it, ready: the frame is decodable, cur: the
\* classification the call starts from.
checkPresenceCall(fl, ready, cur) ==
    IF hasFaceDetector
    THEN /\ fl.live + fl.cancelled < MaxInflight
         /\ inflight' = [fl EXCEPT !.live = @ + 1]
         /\ isUserPresent' = cur
         /\ lastSample' = NoSample
    ELSE /\ inflight' = fl
         /\ \E o \in {<<analysisResult(ready, throws, covered, FALSE, 0, FALSE, cur),
                         sampleOutcome(ready, throws)>> :
                           throws \in BOOLEAN, covered \in FrameCoverage} :
                isUserPresent' = o[1] /\ lastSample' = Sample(o[2])

\* An effect body raises: nothing in the component catches it, React discards
\* the component tree, and the unmount cleanups run (tracks of the handle
\* stopped, sampler calls cancelled, tick interval and listeners removed).
effectThrows(fl, base, live2, ref2) ==
    /\ mounted' = FALSE
    /\ uncaught' = TRUE
    /\ liveTracks' = releaseTracks(live2, ref2)
    /\ inflight' = cancelAll(fl)
    /\ isUserPresent' = base
    /\ lastSample' = NoSample

\* Variant: the effect creates its interval without the immediate call.
samplerEffect_noImmediate(cam2, run2, ready2, base, live2, ref2) ==
    LET changed == <<cam2, run2>> # <<cameraEnabled, isRunning>>
        cleaned == IF changed THEN cancelAll(inflight) ELSE inflight
    IN  /\ inflight' = cleaned /\ isUserPresent' = base /\ lastSample' = NoSample
        /\ liveTracks' = live2
        /\ uncaught' = FALSE
        /\ UNCHANGED mounted

\* The sampler effect (deps [cameraEnabled, isRunning]) after a render in which
\* the two become cam2 and run2: the previous run's cleanup, then the guard, the
\* interval and the immediate checkPresence().  base: isUserPresent as the
\* handler left it; ready2: decodability of the frame after the bind effect.
\* live2, ref2: the live streams and streamRef.current as the handler left them.
\* The detector is constructed in the effect body, outside any try: when the
\* constructor raises, the effect is abandoned before it creates its interval.
samplerEffect(cam2, run2, ready2, base, live2, ref2) ==
    LET changed == <<cam2, run2>> # <<cameraEnabled, isRunning>>
        cleaned == IF changed THEN cancelAll(inflight) ELSE inflight
    IN  IF changed /\ samplerGuard(cam2, run2)
        THEN \/ /\ checkPresenceCall(cleaned, ready2, base)
                /\ liveTracks' = live2
                /\ uncaught' = FALSE
                /\ UNCHANGED mounted
             \/ /\ hasFaceDetector
                /\ effectThrows(cleaned, base, live2, ref2)
        ELSE /\ inflight' = cleaned /\ isUserPresent' = base /\ lastSample' = NoSample
             /\ liveTracks' = live2
             /\ uncaught' = FALSE
             /\ UNCHANGED mounted

\* Variant: a periodic sample also clears the camera error.
checkPresence_clearsError ==
    /\ mounted
    /\ samplerGuard(cameraEnabled, isRunning)
    /\ checkPresenceCall(inflight, videoReady, isUserPresent)
    /\ cameraError' = "null"
    /\ onSecondsTickCalls' = 0
    /\ uncaught' = FALSE
    /\ tickIntervalReset' = FALSE /\ playRejected' = FALSE
    /\ UNCHANGED <<seconds, isRunning, isOnline, cameraEnabled, streamRef,
                   srcObject, videoReady, mounted, acquired, liveTracks, pendingAcq,
                   navigatorOnLine, hasMediaDevices, hasFaceDetector,
                   lastToggle, startMark>>

\* setInterval(checkPresence, 4000) fires.
checkPresence ==
    /\ mounted
    /\ samplerGuard(cameraEnabled, isRunning)
    /\ checkPresenceCall(inflight, videoReady, isUserPresent)
    /\ onSecondsTickCalls' = 0
    /\ uncaught' = FALSE
    /\ tickIntervalReset' = FALSE /\ playRejected' = FALSE
    /\ UNCHANGED <<seconds, isRunning, isOnline, cameraEnabled, cameraError, streamRef,
                   srcObject, videoReady, mounted, acquired, liveTracks, pendingAcq,
                   navigatorOnLine, hasMediaDevices, hasFaceDetector,
                   lastToggle, startMark>>

\* isUserPresent after a suspended call's continuation: the catch block when
\* detect() rejected (d = -1), else the analysis with d faces.  State setters do
\* nothing once unmounted.
resumeResult(d, throws, covered, isCancelled) ==
    IF ~mounted THEN isUserPresent
    ELSE IF d = -1 THEN applyPresence(isCancelled, isUserPresent, "false")
    ELSE analysisResult(videoReady, throws, covered, TRUE, d, isCancelled, isUserPresent)

\* How a suspended call's continuation ended.
resumeOutcome(d, throws, isCancelled) ==
    IF isCancelled \/ ~mounted THEN "discarded"
    ELSE IF d = -1 THEN "failed"
    ELSE sampleOutcome(videoReady, throws)

\* A suspended checkPresence call resumes: detect() settled with d faces
\* (d = -1: it rejected).  c: "live" for a call of the current sampler run,
\* "cancelled" for a call of a run whose cleanup has executed.
detectSettles(c) ==
    /\ inflight[c] > 0
    /\ inflight' = [inflight EXCEPT ![c] = @ - 1]
    /\ \E o \in {<<resumeResult(d, throws, covered, c = "cancelled"),
                    resumeOutcome(d, throws, c = "cancelled")>> :
                      d \in -1..maxDetectedFaces, throws \in BOOLEAN,
                      covered \in FrameCoverage} :
          isUserPresent' = o[1] /\ lastSample' = Sample(o[2])
    /\ onSecondsTickCalls' = 0
    /\ uncaught' = FALSE
    /\ tickIntervalReset' = FALSE /\ playRejected' = FALSE
    /\ UNCHANGED <<seconds, isRunning, isOnline, cameraEnabled, cameraError, streamRef,
                   srcObject, videoReady, mounted, acquired, liveTracks, pendingAcq,
                   navigatorOnLine, hasMediaDevices, hasFaceDetector,
                   lastToggle, startMark>>

\* The bound stream delivers its first decodable frame.
loadedData ==
    /\ mounted /\ cameraEnabled
    /\ srcObject # 0 /\ srcObject \in liveTracks
    /\ ~videoReady
    /\ videoReady' = TRUE
    /\ onSecondsTickCalls' = 0
    /\ uncaught' = FALSE
    /\ tickIntervalReset' = FALSE /\ playRejected' = FALSE
    /\ lastSample' = NoSample
    /\ UNCHANGED <<seconds, isRunning, isOnline, cameraEnabled, isUserPresent, cameraError,
                   streamRef, srcObject, mounted, acquired, liveTracks, pendingAcq,
                   inflight, navigatorOnLine, hasMediaDevices, hasFaceDetector, lastToggle, startMark>>

\* ---------------------------------------------------------- capture manager
RemoveAt(q, i) == [j \in 1..(Len(q) - 1) |-> IF j < i THEN q[j] ELSE q[j + 1]]

\* Request i is the one issued by the most recent handleToggle call.
IsLastToggleRequest(i) ==
    /\ pendingAcq[i] = "toggle"
    /\ \A j \in (i + 1)..Len(pendingAcq) : pendingAcq[j] # "toggle"

\* The "Enable camera" button (rendered while !cameraEnabled): handleEnableCamera
\* up to its suspension in getUserMedia, or to its return when the API is absent.
enableCameraButton ==
    /\ mounted /\ ~cameraEnabled
    /\ IF ~hasMediaDevices
       THEN cameraError' = ApiAbsentMessage /\ UNCHANGED pendingAcq
       ELSE /\ Len(pendingAcq) < MaxPending
            /\ pendingAcq' = Append(pendingAcq, "button")
            /\ UNCHANGED cameraError
    /\ onSecondsTickCalls' = 0
    /\ uncaught' = FALSE
    /\ tickIntervalReset' = FALSE /\ playRejected' = FALSE
    /\ lastSample' = NoSample
    /\ UNCHANGED <<seconds, isRunning, isOnline, cameraEnabled, isUserPresent, streamRef,
                   srcObject, videoReady, mounted, acquired, liveTracks, inflight,
                   navigatorOnLine, hasMediaDevices, hasFaceDetector,
                   lastToggle, startMark>>

\* getUserMedia request i resolves with a new stream: the rest of
\* handleEnableCamera, then (caller handleToggle) setIsRunning(true), then the
\* bind and sampler effects.  State setters do nothing once unmounted; the ref
\* assignment still happens.
getUserMediaResolve(i) ==
    LET caller == pendingAcq[i]
        s      == acquired + 1
        cam2   == IF mounted THEN TRUE ELSE cameraEnabled
        run2   == IF mounted /\ caller = "toggle" THEN TRUE ELSE isRunning
        bound  == mounted /\ ~cameraEnabled
        ready2 == IF bound THEN FALSE ELSE videoReady
    IN  /\ acquired < MaxStreams
        /\ acquired' = s
        /\ streamRef' = s
        /\ pendingAcq' = RemoveAt(pendingAcq, i)
        /\ cameraEnabled' = cam2
        /\ cameraError' = IF mounted THEN "null" ELSE cameraError
        /\ isRunning' = run2
        /\ srcObject' = IF bound THEN s ELSE srcObject
        /\ videoReady' = ready2
        /\ IF mounted
           THEN samplerEffect(cam2, run2, ready2, isUserPresent, liveTracks \cup {s}, s)
           ELSE /\ UNCHANGED <<inflight, isUserPresent, mounted>>
                /\ lastSample' = NoSample
                /\ liveTracks' = liveTracks \cup {s}
                /\ uncaught' = FALSE
        /\ lastToggle' = IF IsLastToggleRequest(i) /\ lastToggle = "start_pending"
                         THEN "start_ok" ELSE lastToggle
        /\ startMark' = IF mounted /\ caller = "toggle"
                        THEN <<seconds, 0>> ELSE startMark
        /\ onSecondsTickCalls' = 0
        /\ tickIntervalReset' = FALSE /\ playRejected' = FALSE
        /\ UNCHANGED <<seconds, isOnline, navigatorOnLine, hasMediaDevices,
                       hasFaceDetector>>

\* getUserMedia request i rejects: the catch block of handleEnableCamera, then
\* (caller handleToggle) setIsRunning(true) and the sampler effect.
getUserMediaReject(i) ==
    LET caller == pendingAcq[i]
        run2   == IF mounted /\ caller = "toggle" THEN TRUE ELSE isRunning
    IN  /\ pendingAcq' = RemoveAt(pendingAcq, i)
        /\ cameraError' = IF mounted THEN AccessDeniedMessage ELSE cameraError
        /\ isRunning' = run2
        /\ IF mounted
           THEN samplerEffect(cameraEnabled, run2, videoReady, isUserPresent,
                              liveTracks, streamRef)
           ELSE /\ UNCHANGED <<inflight, isUserPresent, mounted, liveTracks>>
                /\ lastSample' = NoSample
                /\ uncaught' = FALSE
        /\ lastToggle' = IF IsLastToggleRequest(i) /\ lastToggle = "start_pending"
                         THEN "start_fail" ELSE lastToggle
        /\ onSecondsTickCalls' = 0
        /\ tickIntervalReset' = FALSE /\ playRejected' = FALSE
        /\ UNCHANGED <<seconds, isOnline, cameraEnabled, streamRef, srcObject, videoReady,
                       acquired, navigatorOnLine, hasMediaDevices,
                       hasFaceDetector, startMark>>

\* The unmount cleanups: the stream's tracks are stopped (streamRef.current is
\* left as it is), the sampler run is cancelled, the tick interval is cleared.
unmount ==
    /\ mounted
    /\ mounted' = FALSE
    /\ liveTracks' = releaseTracks(liveTracks, streamRef)
    /\ inflight' = cancelAll(inflight)
    /\ onSecondsTickCalls' = 0
    /\ uncaught' = FALSE
    /\ tickIntervalReset' = FALSE /\ playRejected' = FALSE
    /\ lastSample' = NoSample
    /\ UNCHANGED <<seconds, isRunning, isOnline, cameraEnabled, isUserPresent, cameraError,
                   streamRef, srcObject, videoReady, acquired, pendingAcq, navigatorOnLine,
                   hasMediaDevices, hasFaceDetector, lastToggle, startMark>>

\* --------------------------------------------------------- timer controller
\* Variant: a start acquires the camera whether or not it is enabled.
handleToggleStart_alwaysAcquires ==
    /\ mounted /\ ~isRunning
    /\ IF ~hasMediaDevices
       THEN /\ cameraError' = ApiAbsentMessage
            /\ isRunning' = TRUE
            /\ samplerEffect(cameraEnabled, TRUE, videoReady, isUserPresent,
                             liveTracks, streamRef)
            /\ lastToggle' = "start_fail"
            /\ UNCHANGED pendingAcq
       ELSE /\ Len(pendingAcq) < MaxPending
            /\ pendingAcq' = Append(pendingAcq, "toggle")
            /\ lastToggle' = "start_pending"
            /\ lastSample' = NoSample
            /\ uncaught' = FALSE
            /\ UNCHANGED <<cameraError, isRunning, inflight, isUserPresent, mounted,
                           liveTracks>>
    /\ onSecondsTickCalls' = 0
    /\ tickIntervalReset' = FALSE /\ playRejected' = FALSE
    /\ UNCHANGED <<seconds, isOnline, cameraEnabled, streamRef, srcObject, videoReady,
                   acquired, navigatorOnLine, hasMediaDevices,
                   hasFaceDetector, startMark>>

\* handleToggle while !isRunning (the button reads "Start").
handleToggleStart ==
    /\ mounted /\ ~isRunning
    /\ IF cameraEnabled
       THEN /\ isRunning' = TRUE
            /\ samplerEffect(cameraEnabled, TRUE, videoReady, isUserPresent,
                             liveTracks, streamRef)
            /\ lastToggle' = "start_noacq"
            /\ UNCHANGED <<cameraError, pendingAcq>>
       ELSE IF ~hasMediaDevices
       THEN /\ cameraError' = ApiAbsentMessage
            /\ isRunning' = TRUE
            /\ samplerEffect(cameraEnabled, TRUE, videoReady, isUserPresent,
                             liveTracks, streamRef)
            /\ lastToggle' = "start_fail"
            /\ UNCHANGED pendingAcq
       ELSE /\ Len(pendingAcq) < MaxPending
            /\ pendingAcq' = Append(pendingAcq, "toggle")
            /\ lastToggle' = "start_pending"
            /\ lastSample' = NoSample
            /\ uncaught' = FALSE
            /\ UNCHANGED <<cameraError, isRunning, inflight, isUserPresent, mounted,
                           liveTracks>>
    /\ onSecondsTickCalls' = 0
    /\ tickIntervalReset' = FALSE /\ playRejected' = FALSE
    /\ UNCHANGED <<seconds, isOnline, cameraEnabled, streamRef, srcObject, videoReady,
                   acquired, navigatorOnLine, hasMediaDevices,
                   hasFaceDetector, startMark>>

\* Variant: stopping also clears the elapsed time.
handleToggleStop_clearsSeconds ==
    /\ mounted /\ isRunning
    /\ isRunning' = FALSE
    /\ streamRef' = nullRef
    /\ srcObject' = 0
    /\ videoReady' = FALSE
    /\ cameraEnabled' = FALSE
    /\ samplerEffect(FALSE, FALSE, FALSE, "null",
                     releaseTracks(liveTracks, streamRef), nullRef)
    /\ lastToggle' = "stop"
    /\ startMark' = NoMark
    /\ seconds' = 0
    /\ onSecondsTickCalls' = 0
    /\ tickIntervalReset' = FALSE /\ playRejected' = FALSE
    /\ UNCHANGED <<isOnline, cameraError, acquired, pendingAcq,
                   navigatorOnLine, hasMediaDevices, hasFaceDetector>>

\* handleToggle while isRunning (the button reads "Stop").
handleToggleStop ==
    /\ mounted /\ isRunning
    /\ isRunning' = FALSE
    /\ streamRef' = nullRef
    /\ srcObject' = 0
    /\ videoReady' = FALSE
    /\ cameraEnabled' = FALSE
    /\ samplerEffect(FALSE, FALSE, FALSE, "null",
                     releaseTracks(liveTracks, streamRef), nullRef)
    /\ lastToggle' = "stop"
    /\ startMark' = NoMark
    /\ onSecondsTickCalls' = 0
    /\ tickIntervalReset' = FALSE /\ playRejected' = FALSE
    /\ UNCHANGED <<seconds, isOnline, cameraError, acquired, pendingAcq,
                   navigatorOnLine, hasMediaDevices, hasFaceDetector>>

handleToggle == handleToggleStart \/ handleToggleStop

\* Variant: reset also stops the timer.
handleReset_alsoStops ==
    /\ mounted
    /\ seconds' = 0
    /\ isRunning' = FALSE
    /\ startMark' = NoMark
    /\ onSecondsTickCalls' = 0
    /\ uncaught' = FALSE
    /\ tickIntervalReset' = FALSE /\ playRejected' = FALSE
    /\ lastSample' = NoSample
    /\ UNCHANGED <<isOnline, cameraEnabled, isUserPresent, cameraError, streamRef,
                   srcObject, videoReady, mounted, acquired, liveTracks, pendingAcq,
                   inflight, navigatorOnLine, hasMediaDevices, hasFaceDetector, lastToggle>>

handleReset ==
    /\ mounted
    /\ seconds' = 0
    /\ startMark' = NoMark
    /\ onSecondsTickCalls' = 0
    /\ uncaught' = FALSE
    /\ tickIntervalReset' = FALSE /\ playRejected' = FALSE
    /\ lastSample' = NoSample
    /\ UNCHANGED <<isRunning, isOnline, cameraEnabled, isUserPresent, cameraError, streamRef,
                   srcObject, videoReady, mounted, acquired, liveTracks, pendingAcq,
                   inflight, navigatorOnLine, hasMediaDevices, hasFaceDetector, lastToggle>>

\* The one-second interval of the tick effect fires.  (The counter is followed
\* for MaxTicks ticks from zero, and up to MaxDisplaySeconds + 1 from the larger
\* values the display specification starts with.)
tick ==
    /\ tickIntervalActive
    /\ seconds # MaxTicks /\ seconds <= MaxDisplaySeconds
    /\ seconds' = seconds + 1
    /\ onSecondsTickCalls' = 1
    /\ uncaught' = FALSE
    /\ tickIntervalReset' = FALSE /\ playRejected' = FALSE
    /\ lastSample' = NoSample
    /\ startMark' = IF startMark = NoMark THEN NoMark ELSE <<startMark[1], startMark[2] + 1>>
    /\ UNCHANGED <<isRunning, isOnline, cameraEnabled, isUserPresent, cameraError, streamRef,
                   srcObject, videoReady, mounted, acquired, liveTracks, pendingAcq,
                   inflight, navigatorOnLine, hasMediaDevices, hasFaceDetector,
                   lastToggle>>

\* ----------------------------------------------------- connectivity monitor
\* Variant: the listener stores the flag as it was before the transition.
updateStatus_readsStale ==
    /\ navigatorOnLine' = ~navigatorOnLine
    /\ isOnline' = IF mounted THEN navigatorOnLine ELSE isOnline
    /\ onSecondsTickCalls' = 0
    /\ uncaught' = FALSE
    /\ tickIntervalReset' = FALSE /\ playRejected' = FALSE
    /\ lastSample' = NoSample
    /\ UNCHANGED <<seconds, isRunning, cameraEnabled, isUserPresent, cameraError, streamRef,
                   srcObject, videoReady, mounted, acquired, liveTracks, pendingAcq,
                   inflight, hasMediaDevices, hasFaceDetector,
                   lastToggle, startMark>>

\* The platform's reachability flips and fires "online" / "offline"; the
\* listener (registered while mounted) runs updateStatus.
updateStatus ==
    /\ navigatorOnLine' = ~navigatorOnLine
    /\ isOnline' = IF mounted THEN navigatorOnLine' ELSE isOnline
    /\ onSecondsTickCalls' = 0
    /\ uncaught' = FALSE
    /\ tickIntervalReset' = FALSE /\ playRejected' = FALSE
    /\ lastSample' = NoSample
    /\ UNCHANGED <<seconds, isRunning, cameraEnabled, isUserPresent, cameraError, streamRef,
                   srcObject, videoReady, mounted, acquired, liveTracks, pendingAcq,
                   inflight, hasMediaDevices, hasFaceDetector,
                   lastToggle, startMark>>

\* ------------------------------------------------------------ timer display
\* const minutes = Math.floor(seconds / 60)
minutes == seconds \div 60

\* const remainderSeconds = seconds % 60
remainderSeconds == seconds % 60

DigitChars == <<"0", "1", "2", "3", "4", "5", "6", "7", "8", "9">>

\* Number.prototype.toString() of a non-negative integer, as its characters.
RECURSIVE toString(_)
toString(n) ==
    IF n < 10 THEN <<DigitChars[n + 1]>>
    ELSE Append(toString(n \div 10), DigitChars[(n % 10) + 1])

\* Variant: the padded string is cut to the target length.
padStart_truncates(str, targetLength, padString) ==
    LET padded == [i \in 1..(targetLength - Len(str)) |-> padString] \o str
    IN  SubSeq(padded, Len(padded) - targetLength + 1, Len(padded))

\* String.prototype.padStart with a one-character pad string.
padStart(str, targetLength, padString) ==
    IF Len(str) >= targetLength THEN str
    ELSE [i \in 1..(targetLength - Len(str)) |-> padString] \o str

\* {minutes.toString().padStart(2, "0")}:{remainderSeconds.toString().padStart(2, "0")}
timerDisplay ==
    padStart(toString(minutes), 2, "0") \o <<":">> \o padStart(toString(remainderSeconds), 2, "0")

\* ------------------------------------------------------------- host, platform
\* The host (Dashboard) re-renders and passes a new inline onSecondsTick: the
\* tick effect (deps [isTimerActive, onSecondsTick]) runs its cleanup and its
\* body again, which clears the interval and creates a new one when
\* isTimerActive.
hostRerender ==
    /\ mounted
    /\ tickIntervalReset' = tickIntervalActive
    /\ playRejected' = FALSE
    /\ uncaught' = FALSE
    /\ onSecondsTickCalls' = 0
    /\ lastSample' = NoSample
    /\ UNCHANGED <<seconds, isRunning, isOnline, cameraEnabled, isUserPresent, cameraError,
                   streamRef, srcObject, videoReady, mounted, acquired, liveTracks, pendingAcq,
                   inflight, navigatorOnLine, hasMediaDevices, hasFaceDetector,
                   lastToggle, startMark>>

\* Variant: a refused playback switches the camera off.
playRejects_disablesCamera ==
    /\ mounted /\ cameraEnabled /\ srcObject # 0
    /\ playRejected' = TRUE
    /\ cameraEnabled' = FALSE
    /\ tickIntervalReset' = FALSE
    /\ uncaught' = FALSE
    /\ onSecondsTickCalls' = 0
    /\ lastSample' = NoSample
    /\ UNCHANGED <<seconds, isRunning, isOnline, isUserPresent, cameraError,
                   streamRef, srcObject, videoReady, mounted, acquired, liveTracks, pendingAcq,
                   inflight, navigatorOnLine, hasMediaDevices, hasFaceDetector,
                   lastToggle, startMark>>

\* The promise of video.play() on the bound stream rejects: the catch of the
\* bind effect writes a console warning.
playRejects ==
    /\ mounted /\ cameraEnabled /\ srcObject # 0
    /\ playRejected' = TRUE
    /\ tickIntervalReset' = FALSE
    /\ uncaught' = FALSE
    /\ onSecondsTickCalls' = 0
    /\ lastSample' = NoSample
    /\ UNCHANGED <<seconds, isRunning, isOnline, cameraEnabled, isUserPresent, cameraError,
                   streamRef, srcObject, videoReady, mounted, acquired, liveTracks, pendingAcq,
                   inflight, navigatorOnLine, hasMediaDevices, hasFaceDetector,
                   lastToggle, startMark>>

\* ------------------------------------------------------------ specification
TypeOK ==
    /\ seconds \in 0..MaxTicks
    /\ isRunning \in BOOLEAN /\ isOnline \in BOOLEAN /\ cameraEnabled \in BOOLEAN
    /\ isUserPresent \in Presence
    /\ cameraError \in {"null", ApiAbsentMessage, AccessDeniedMessage}
    /\ streamRef \in 0..MaxStreams /\ srcObject \in 0..MaxStreams
    /\ videoReady \in BOOLEAN /\ mounted \in BOOLEAN
    /\ acquired \in 0..MaxStreams /\ liveTracks \subseteq 1..acquired
    /\ pendingAcq \in Seq(Callers) /\ Len(pendingAcq) <= MaxPending
    /\ inflight.live \in 0..MaxInflight /\ inflight.cancelled \in 0..MaxInflight
    /\ navigatorOnLine \in BOOLEAN /\ hasMediaDevices \in BOOLEAN
    /\ hasFaceDetector \in BOOLEAN
    /\ onSecondsTickCalls \in 0..1
    /\ lastSample.outcome \in SampleOutcomes
    /\ uncaught \in BOOLEAN /\ tickIntervalReset \in BOOLEAN /\ playRejected \in BOOLEAN
    /\ lastToggle \in ToggleOutcomes
    /\ startMark \in (-1..MaxTicks) \X (-1..MaxTicks)

Next ==
    \/ handleToggleStart
    \/ handleToggleStop
    \/ handleReset
    \/ enableCameraButton
    \/ \E i \in 1..Len(pendingAcq) : getUserMediaResolve(i)
    \/ \E i \in 1..Len(pendingAcq) : getUserMediaReject(i)
    \/ checkPresence
    \/ \E c \in {"live", "cancelled"} : detectSettles(c)
    \/ loadedData
    \/ tick
    \/ updateStatus
    \/ unmount

Spec == Init /\ [][Next]_vars

\* Only the timer's own button is used: the "Enable camera" button is left alone.
NextToggle ==
    \/ handleToggleStart
    \/ handleToggleStop
    \/ handleReset
    \/ \E i \in 1..Len(pendingAcq) : getUserMediaResolve(i)
    \/ \E i \in 1..Len(pendingAcq) : getUserMediaReject(i)
    \/ checkPresence
    \/ \E c \in {"live", "cancelled"} : detectSettles(c)
    \/ loadedData
    \/ tick
    \/ updateStatus
    \/ unmount

SpecToggle == Init /\ [][NextToggle]_vars

\* ------------------------------------------------ frame analysis in isolation
\* The camera has been enabled with the button while the timer runs and the
\* stream has delivered a decodable frame.
InitAnalysis ==
    /\ seconds = 0
    /\ isRunning = TRUE
    /\ navigatorOnLine \in BOOLEAN
    /\ isOnline = navigatorOnLine
    /\ cameraEnabled = TRUE
    /\ isUserPresent = "null"
    /\ cameraError = "null"
    /\ streamRef = 1
    /\ srcObject = 1
    /\ videoReady = TRUE
    /\ mounted = TRUE
    /\ acquired = 1
    /\ liveTracks = {1}
    /\ pendingAcq = <<>>
    /\ inflight = [live |-> 0, cancelled |-> 0]
    /\ hasMediaDevices = TRUE
    /\ hasFaceDetector \in BOOLEAN
    /\ onSecondsTickCalls = 0
    /\ lastSample = NoSample
    /\ uncaught = FALSE
    /\ tickIntervalReset = FALSE
    /\ playRejected = FALSE
    /\ lastToggle = "none"
    /\ startMark = NoMark

\* One whole sample of a decodable frame f: checkPresence with detect() (when
\* there is a detector) resolved with d faces, the pixel loop over f, the
\* classification and setIsUserPresent.
analyseFrame ==
    /\ mounted /\ samplerGuard(cameraEnabled, isRunning) /\ videoReady
    /\ inflight.live = 0
    /\ \E f \in Frames, d \in 0..maxDetectedFaces :
          LET facesCount == IF hasFaceDetector THEN d ELSE 0
          IN  /\ lastSample' = [outcome |-> "classified", frame |-> f, faces |-> facesCount]
              /\ isUserPresent' = analysisResult(TRUE, FALSE, cameraCovered(f), hasFaceDetector,
                                                  facesCount, FALSE, isUserPresent)
    /\ onSecondsTickCalls' = 0
    /\ uncaught' = FALSE
    /\ tickIntervalReset' = FALSE /\ playRejected' = FALSE
    /\ UNCHANGED <<seconds, isRunning, isOnline, cameraEnabled, cameraError, streamRef,
                   srcObject, videoReady, mounted, acquired, liveTracks, pendingAcq,
                   inflight, navigatorOnLine, hasMediaDevices, hasFaceDetector,
                   lastToggle, startMark>>

NextAnalysis ==
    \/ analyseFrame
    \/ tick
    \/ handleReset
    \/ updateStatus

SpecAnalysis == InitAnalysis /\ [][NextAnalysis]_vars

\* ------------------------------------- the component inside its host and page
\* The timer's own controls, with the host re-rendering and the platform
\* refusing playback at any time.
NextHost ==
    \/ NextToggle
    \/ hostRerender
    \/ playRejects

SpecHost == Init /\ [][NextHost]_vars

\* ------------------------------------------------------- display in isolation
\* The timer has run without a camera for any number of seconds.
InitDisplay ==
    /\ seconds \in 0..MaxDisplaySeconds
    /\ isRunning = TRUE
    /\ navigatorOnLine \in BOOLEAN
    /\ isOnline = navigatorOnLine
    /\ cameraEnabled = FALSE
    /\ isUserPresent = "null"
    /\ cameraError = "null"
    /\ streamRef = 0
    /\ srcObject = 0
    /\ videoReady = FALSE
    /\ mounted = TRUE
    /\ acquired = 0
    /\ liveTracks = {}
    /\ pendingAcq = <<>>
    /\ inflight = [live |-> 0, cancelled |-> 0]
    /\ hasMediaDevices = TRUE
    /\ hasFaceDetector = FALSE
    /\ onSecondsTickCalls = 0
    /\ lastSample = NoSample
    /\ uncaught = FALSE
    /\ tickIntervalReset = FALSE
    /\ playRejected = FALSE
    /\ lastToggle = "none"
    /\ startMark = NoMark

NextDisplay ==
    \/ tick
    \/ handleReset
    \/ updateStatus

SpecDisplay == InitDisplay /\ [][NextDisplay]_vars

\* --------------------------------------------- enable used only while running
\* The "Enable camera" button is clicked only while the timer runs.
NextEnableWhileRunning ==
    \/ isRunning /\ enableCameraButton
    \/ NextToggle

SpecEnableWhileRunning == Init /\ [][NextEnableWhileRunning]_vars

\* ------------------------------------------------ frame analysis, scheduled
\* Interval callbacks of a live interval are eventually run by the event loop:
\* the sampler's interval (a whole sample) and the tick interval.
SpecAnalysisFair ==
    /\ InitAnalysis
    /\ [][NextAnalysis]_vars
    /\ WF_vars(analyseFrame)
    /\ WF_vars(tick)

\* ================================================================== claims
\* The capture session is active: camera enabled with a live stream in the handle.
sessionActive == cameraEnabled /\ streamRef # 0 /\ streamRef \in liveTracks

\* runRequested AND (camera disabled OR latest classification == Present)
EffectiveActiveExpected == isRunning /\ (~cameraEnabled \/ isUserPresent = "true")

\* C1: in every reachable state effectiveActive (isTimerActive) equals
\* runRequested AND (camera disabled OR classification Present); with the camera
\* disabled it equals runRequested, with the camera enabled and the
\* classification Absent or Unknown it is false; and the one-second tick can
\* fire exactly in those states.
C1_EffectiveActive ==
    /\ isTimerActive = EffectiveActiveExpected
    /\ (~cameraEnabled => isTimerActive = isRunning)
    /\ (cameraEnabled /\ isUserPresent \in {"false", "null"} => ~isTimerActive)
    /\ (mounted /\ seconds < MaxTicks => (ENABLED tick) = EffectiveActiveExpected)

C1_Witness == mounted /\ isRunning /\ cameraEnabled /\ isUserPresent = "false" /\ ~isTimerActive

\* C2: elapsedSeconds never decreases from one state to the next except in a
\* reset step, and a reset step leaves it at exactly 0.
C2_ElapsedMonotone ==
    [][ /\ (seconds' < seconds => handleReset)
        /\ (handleReset => seconds' = 0) ]_vars

\* A reset has acted on a gated run that had been started with the camera.
C2_Witness ==
    /\ mounted /\ lastToggle = "start_ok" /\ cameraEnabled /\ isRunning
    /\ startMark = NoMark /\ seconds = 0

\* C3: over sequences of handleToggle calls the capture session is active if
\* and only if the most recent call was a start whose acquisition succeeded.
C3_SessionIffLastStartSucceeded ==
    mounted => (sessionActive <=> lastToggle = "start_ok")

\* C4: never more than one acquired stream with live tracks, and every live
\* stream is the one held in the session handle.
C4_AtMostOneLiveStream ==
    /\ Cardinality(liveTracks) <= 1
    /\ \A s \in liveTracks : s = streamRef

\* C5: after component teardown there are zero live hardware tracks.
C5_NoLiveTracksAfterTeardown == ~mounted => liveTracks = {}

\* C6: a classification in flight when the sampling loop was torn down never
\* changes the latest classification when it completes, normally or by failure.
C6_CancelledSampleDiscarded ==
    [][detectSettles("cancelled") => isUserPresent' = isUserPresent]_vars

\* A detect() call is still pending after handleToggle stopped the loop.
C6_Witness ==
    /\ mounted /\ lastToggle = "stop" /\ ~isRunning /\ ~cameraEnabled
    /\ inflight.cancelled > 0 /\ isUserPresent = "null"

\* C7: after a start with a successful acquisition elapsedSeconds is its value
\* at the start plus the number of ticks since (3 ticks give +3); no step taken
\* while the camera is enabled and the classification is not Present increases
\* it; and once the classification is Present the tick can fire again.
C7_GatedScenario ==
    /\ [](startMark # NoMark => seconds = startMark[1] + startMark[2])
    /\ [][cameraEnabled /\ isUserPresent # "true" => seconds' <= seconds]_vars
    /\ [](mounted /\ isRunning /\ cameraEnabled /\ isUserPresent = "true" /\ seconds < MaxTicks
            => ENABLED tick)

C7_Witness ==
    /\ mounted /\ lastToggle = "start_ok" /\ cameraEnabled /\ isUserPresent = "true"
    /\ startMark # NoMark /\ startMark[2] = 3 /\ seconds = startMark[1] + 3

\* C8: a tick step happens only while effectiveActive, adds exactly 1 and
\* invokes the callback exactly once; the callback is never invoked without the
\* increment and there is no increment while effectiveActive is false.
C8_TickRule ==
    [][ /\ (tick => isTimerActive /\ seconds' = seconds + 1 /\ onSecondsTickCalls' = 1)
        /\ (onSecondsTickCalls' # 0 => onSecondsTickCalls' = 1 /\ seconds' = seconds + 1)
        /\ (seconds' > seconds => isTimerActive /\ seconds' = seconds + 1
                                   /\ onSecondsTickCalls' = 1) ]_vars

\* A tick of a run gated by the camera has just fired.
C8_Witness ==
    /\ mounted /\ onSecondsTickCalls = 1 /\ seconds >= 1
    /\ cameraEnabled /\ isUserPresent = "true" /\ isRunning

\* C9: a start with the camera not enabled sets runRequested once the
\* acquisition has settled either way; when it failed the camera is disabled,
\* the error is non-empty and the timer is effectively active.
C9_StartProceedsUnconstrained ==
    [][ /\ \A i \in 1..Len(pendingAcq) :
              mounted /\ pendingAcq[i] = "toggle" =>
                  /\ (getUserMediaResolve(i) => isRunning')
                  /\ (getUserMediaReject(i) =>
                          /\ isRunning' /\ ~cameraEnabled'
                          /\ cameraError' # "null" /\ isTimerActive')
        /\ (handleToggleStart /\ ~cameraEnabled /\ ~hasMediaDevices =>
                /\ isRunning' /\ ~cameraEnabled'
                /\ cameraError' # "null" /\ isTimerActive') ]_vars

\* C10: a stop from any running state leaves runRequested false, the camera
\* disabled, every track of the held stream stopped, the handle cleared and the
\* classification Unknown; nothing else ever clears runRequested.
C10_StopReleasesEverything ==
    [][ /\ (handleToggleStop =>
                /\ ~isRunning' /\ ~cameraEnabled' /\ streamRef' = 0 /\ srcObject' = 0
                /\ (streamRef # 0 => streamRef \notin liveTracks')
                /\ isUserPresent' = "null")
        /\ (isRunning /\ ~isRunning' => handleToggleStop) ]_vars

\* A stop has released a stream that had been acquired and classified.
C10_Witness ==
    /\ mounted /\ lastToggle = "stop" /\ ~isRunning /\ ~cameraEnabled
    /\ streamRef = 0 /\ acquired >= 1 /\ liveTracks = {} /\ isUserPresent = "null"

\* C11: reset can be used in every state of the mounted component and changes
\* only elapsedSeconds: run state, camera, handle and tracks, classification,
\* sampler and camera error are as before.
C11_ResetFrame ==
    /\ [](mounted => ENABLED handleReset)
    /\ [][handleReset =>
            /\ seconds' = 0
            /\ UNCHANGED <<isRunning, cameraEnabled, streamRef, liveTracks, srcObject,
                           videoReady, isUserPresent, inflight, cameraError, pendingAcq,
                           isOnline, mounted, acquired>>]_vars

\* A reset has acted on a gated run that is ticking.
C11_Witness ==
    /\ mounted /\ lastToggle = "start_ok" /\ startMark = NoMark /\ seconds = 0
    /\ isRunning /\ cameraEnabled /\ isUserPresent = "true" /\ streamRef \in liveTracks
    /\ onSecondsTickCalls = 0

\* C12: when an acquisition fails (API absent, request rejected) the session is
\* inactive with no stream handle and the error is a non-empty message; when it
\* succeeds the handle holds the stream, the session is active and the error
\* is cleared.
C12_EnableOutcome ==
    [][ /\ \A i \in 1..Len(pendingAcq) :
              mounted =>
                  /\ (getUserMediaResolve(i) =>
                          /\ streamRef' # nullRef /\ streamRef' \in liveTracks'
                          /\ cameraEnabled' /\ cameraError' = "null")
                  /\ (getUserMediaReject(i) =>
                          /\ ~cameraEnabled' /\ streamRef' = nullRef
                          /\ cameraError' # "null")
        /\ ((enableCameraButton \/ handleToggleStart) /\ ~cameraEnabled /\ ~hasMediaDevices =>
                /\ ~cameraEnabled' /\ streamRef' = nullRef
                /\ cameraError' # "null") ]_vars

C14_ReleaseIdempotent ==
    [][ (handleToggleStop \/ unmount) /\ streamRef = 0 =>
            /\ liveTracks' = liveTracks
            /\ UNCHANGED <<streamRef, cameraEnabled, srcObject, videoReady,
                           isUserPresent, acquired, cameraError>> ]_vars

\* A teardown after a stop that had released an acquired stream.
C14_Witness ==
    /\ ~mounted /\ lastToggle = "stop" /\ streamRef = 0 /\ ~cameraEnabled
    /\ acquired >= 1 /\ liveTracks = {}

\* C15: the status label is 'Studying' when effectiveActive, the long label when
\* the camera is enabled and run is requested but not effectiveActive, and
\* 'Not studying' in every other state.
C15_StatusLabel ==
    mounted =>
        studyStatusLabel =
            IF EffectiveActiveExpected THEN "Studying"
            ELSE IF cameraEnabled /\ isRunning
                 THEN "Not studying - user not detected or camera covered"
                 ELSE "Not studying"

\* Mean luminance of f below t: (sum of lum) / pixels < t, with 3 * lum = r + g + b.
MeanBelow(f, t) == Sum3(f) < 3 * t * Len(f)

RECURSIVE SqDev9Upto(_, _)
SqDev9Upto(f, n) ==
    IF n = 0 THEN 0
    ELSE (Len(f) * Lum3(f[n]) - Sum3(f)) * (Len(f) * Lum3(f[n]) - Sum3(f)) + SqDev9Upto(f, n - 1)

\* Luminance variance of f below t, as the mean squared deviation from the mean:
\* sum over pixels of (lum - mean)^2 / pixels < t, scaled by 9 * pixels^3.
VarianceBelow(f, t) == SqDev9Upto(f, Len(f)) < 9 * t * Len(f) * Len(f) * Len(f)

\* C16: a sample of a ready frame with mean m and variance v is classified
\* Absent if m < 25 or v < 50 whatever the detector says; otherwise with a
\* detector Present iff a face was counted; otherwise Present.
C16_DecisionTable ==
    lastSample.outcome = "classified" /\ lastSample.frame # <<>> =>
        isUserPresent =
            IF MeanBelow(lastSample.frame, 25) \/ VarianceBelow(lastSample.frame, 50)
            THEN "false"
            ELSE IF hasFaceDetector
                 THEN (IF lastSample.faces > 0 THEN "true" ELSE "false")
                 ELSE "true"

\* A covered frame in which the detector counted a face was classified.
C16_Witness ==
    /\ lastSample.outcome = "classified" /\ lastSample.frame # <<>>
    /\ hasFaceDetector /\ lastSample.faces > 0
    /\ VarianceBelow(lastSample.frame, 50) /\ ~MeanBelow(lastSample.frame, 25)
    /\ isUserPresent = "false"

AllBlack == [i \in 1..FramePixels |-> <<0, 0, 0>>]

\* C17: an all-black ready frame sampled without a detector is classified Absent.
C17_AllBlackAbsent ==
    lastSample.outcome = "classified" /\ lastSample.frame = AllBlack /\ ~hasFaceDetector
        => isUserPresent = "false"

C17_Witness ==
    /\ lastSample.outcome = "classified" /\ lastSample.frame = AllBlack
    /\ ~hasFaceDetector /\ isUserPresent = "false"

\* Half the pixels are black and half white.
IsCheckerboard(f) ==
    /\ \A i \in 1..Len(f) : f[i] \in {<<0, 0, 0>>, <<255, 255, 255>>}
    /\ 2 * Cardinality({i \in 1..Len(f) : f[i] = <<0, 0, 0>>}) = Len(f)

\* C18: a ready checkerboard frame sampled without a detector is classified Present.
C18_CheckerboardPresent ==
    lastSample.outcome = "classified" /\ lastSample.frame # <<>>
        /\ IsCheckerboard(lastSample.frame) /\ ~hasFaceDetector
        => isUserPresent = "true"

C18_Witness ==
    /\ lastSample.outcome = "classified" /\ lastSample.frame # <<>>
    /\ IsCheckerboard(lastSample.frame) /\ ~hasFaceDetector /\ isUserPresent = "true"

\* C19: a sample that fails while its loop is not cancelled leaves the
\* classification Absent and the loop alive: the periodic sample can run again
\* and, once the frame is decodable, a sample can classify Present.
C19_FailedSampleAbsent ==
    lastSample.outcome = "failed" =>
        /\ isUserPresent = "false"
        /\ mounted /\ samplerGuard(cameraEnabled, isRunning)
        /\ (inflight.live + inflight.cancelled < MaxInflight => ENABLED checkPresence)
        /\ (videoReady /\ ~hasFaceDetector =>
                ENABLED (checkPresence /\ isUserPresent' = "true"))
        /\ (videoReady /\ hasFaceDetector /\ inflight.live > 0 =>
                ENABLED (detectSettles("live") /\ isUserPresent' = "true"))

\* A sample of a decodable frame has just failed in the running loop.
C19_Witness ==
    /\ lastSample.outcome = "failed" /\ isUserPresent = "false"
    /\ mounted /\ cameraEnabled /\ isRunning /\ videoReady

\* C20: a sample that runs while the frame is not decodable leaves the
\* classification exactly as it was, with or without a detector.
C20_NotReadyKeepsClassification ==
    [][ lastSample'.outcome \in {"skipped", "failed", "classified"} /\ ~videoReady'
            => isUserPresent' = isUserPresent ]_vars

\* C21: at most one sample computation of the running loop is in flight: a
\* periodic call made while an earlier call is still suspended in detect()
\* starts no second computation.
C21_OneSampleInFlight == inflight.live <= 1

\* The sampler is in Sampling: its interval exists and its run is not cancelled.
samplerSampling == mounted /\ cameraEnabled /\ isRunning

\* C22: the periodic sample can fire exactly in the states where the camera is
\* enabled and run is requested; outside them no call of a live loop is pending;
\* the step that leaves Sampling marks every pending call cancelled.
C22_SamplerStateMachine ==
    /\ [](ENABLED checkPresence => samplerSampling)
    /\ [](samplerSampling /\ (hasFaceDetector => inflight.live + inflight.cancelled < MaxInflight)
              => ENABLED checkPresence)
    /\ [](~samplerSampling => inflight.live = 0)
    /\ [][samplerSampling /\ ~samplerSampling' =>
              /\ inflight'.live = 0
              /\ inflight'.cancelled = inflight.live + inflight.cancelled]_vars

\* Sampling was left by a stop while a detect() call was pending.
C22_Witness ==
    /\ mounted /\ ~isRunning /\ ~cameraEnabled /\ lastToggle = "stop"
    /\ inflight.live = 0 /\ inflight.cancelled >= 1

\* C23: toggleStart, toggleStop, enable, the completion of an acquisition and
\* the sample steps leave elapsedSeconds as it is: a step that changes
\* elapsedSeconds is none of them.
C23_ElapsedKeptAcrossCycles ==
    [][ seconds' # seconds =>
          ~( \/ handleToggleStart
             \/ handleToggleStop
             \/ enableCameraButton
             \/ \E i \in 1..Len(pendingAcq) : getUserMediaResolve(i) \/ getUserMediaReject(i)
             \/ checkPresence
             \/ \E c \in {"live", "cancelled"} : detectSettles(c)
             \/ loadedData ) ]_vars

\* A second start, after a stop, has completed with the count of the first run kept.
C23_Witness ==
    /\ mounted /\ isRunning /\ lastToggle = "start_ok" /\ acquired = 2
    /\ seconds >= 1 /\ startMark = <<seconds, 0>>

\* Value of a digit character.
DigitValue(ch) == CHOOSE d \in 0..9 : DigitChars[d + 1] = ch

RECURSIVE ParseDigits(_)
ParseDigits(str) ==
    IF str = <<>> THEN 0
    ELSE 10 * ParseDigits(SubSeq(str, 1, Len(str) - 1)) + DigitValue(str[Len(str)])

IsDigits(str) == \A i \in 1..Len(str) : \E d \in 0..9 : DigitChars[d + 1] = str[i]

\* C24: the display is MM:SS where MM reads floor(s/60), has two digits or, for
\* 100 minutes and more, all its digits and no padding, and SS has exactly two
\* digits and reads s mod 60, a value in 0..59.
C24_DisplayFormat ==
    LET d  == timerDisplay
        n  == Len(d)
        mm == SubSeq(d, 1, n - 3)
        ss == SubSeq(d, n - 1, n)
    IN  /\ n >= 5
        /\ d[n - 2] = ":"
        /\ IsDigits(mm) /\ IsDigits(ss)
        /\ ParseDigits(ss) = seconds % 60 /\ ParseDigits(ss) \in 0..59
        /\ ParseDigits(mm) = seconds \div 60
        /\ (Len(mm) > 2 => mm[1] # "0")

\* After the tick to one hundred minutes and five seconds the display is 100:05.
C24_Witness ==
    /\ seconds = 6005 /\ onSecondsTickCalls = 1
    /\ timerDisplay = <<"1", "0", "0", ":", "0", "5">>

\* C25: the online flag of the mounted component equals the platform's flag;
\* only the online/offline listener changes it, and that listener changes
\* nothing else.
C25_OnlineMirror ==
    /\ [](mounted => isOnline = navigatorOnLine)
    /\ [][ /\ (isOnline' # isOnline => updateStatus)
           /\ (updateStatus =>
                  UNCHANGED <<seconds, isRunning, cameraEnabled, isUserPresent, cameraError,
                              streamRef, srcObject, videoReady, mounted, acquired, liveTracks,
                              pendingAcq, inflight>>) ]_vars

\* The platform went offline during a gated run that keeps ticking.
C25_Witness ==
    /\ mounted /\ ~isOnline /\ ~navigatorOnLine
    /\ cameraEnabled /\ isRunning /\ isUserPresent = "true" /\ seconds >= 1

\* C26: no step ends in an exception that leaves an event handler, an effect
\* or a timer callback of the component.
C26_NoFailureEscapes == ~uncaught

\* C27: the tick interval is created and cleared only when effectiveActive
\* changes: no step clears and re-creates it while effectiveActive stays true.
C27_TickIntervalFollowsEffectiveActive == ~tickIntervalReset

\* C28: the step that enters Sampling starts one sample at once; each firing of
\* the interval starts one more; a step that ends outside Sampling starts none
\* and applies none.
C28_ImmediateThenPeriodic ==
    [][ /\ (~samplerSampling /\ samplerSampling' =>
               IF hasFaceDetector
               THEN inflight'.live = 1
               ELSE lastSample'.outcome \in {"skipped", "failed", "classified"})
        /\ (checkPresence =>
               IF hasFaceDetector
               THEN inflight'.live = inflight.live + 1
               ELSE lastSample'.outcome \in {"skipped", "failed", "classified"})
        /\ (~samplerSampling' =>
               /\ inflight'.live = 0
               /\ lastSample'.outcome \in {"none", "discarded"}) ]_vars

\* A start has just entered Sampling and its immediate sample is suspended in detect().
C28_Witness ==
    /\ samplerSampling /\ hasFaceDetector /\ lastToggle = "start_ok"
    /\ ~videoReady /\ inflight.live = 1 /\ lastSample = NoSample

\* C29: a refused playback changes no state of the component: camera, handle,
\* tracks, binding, classification, run request, elapsed seconds and pending
\* samples are as before, and the periodic sample can still fire.
C29_PlaybackFailureHarmless ==
    /\ [][playRejects =>
              UNCHANGED <<cameraEnabled, streamRef, liveTracks, srcObject, videoReady,
                          isUserPresent, isRunning, seconds, inflight, cameraError,
                          pendingAcq, mounted>>]_vars
    /\ [](playRejected /\ isRunning
              /\ (hasFaceDetector => inflight.live + inflight.cancelled < MaxInflight)
              => ENABLED checkPresence)

\* Playback was refused during a gated run in which the user is detected.
C29_Witness ==
    /\ playRejected /\ mounted /\ cameraEnabled /\ isRunning
    /\ isUserPresent = "true" /\ seconds >= 1 /\ streamRef \in liveTracks

\* C30: a sample step, periodic or resumed after detect(), changes at most the
\* classification: a step that changes the camera flag, the handle, the tracks,
\* the binding, the run request, the camera error or the elapsed seconds is not
\* a sample step.
C30_SampleFrame ==
    [][ ~UNCHANGED <<cameraEnabled, streamRef, liveTracks, srcObject, videoReady,
                     isRunning, cameraError, seconds, pendingAcq, acquired, mounted>>
            => ~(checkPresence \/ \E c \in {"live", "cancelled"} : detectSettles(c)) ]_vars

\* A sample failed while an earlier camera error was on display.
C30_Witness ==
    /\ lastSample.outcome = "failed" /\ cameraError # "null"
    /\ cameraEnabled /\ streamRef \in liveTracks

\* C31: the component starts with run requested, the camera disabled, the
\* classification Unknown, no camera error and zero elapsed seconds, and its
\* tick can fire; as long as no toggle has been made run stays requested, so
\* the first toggle is a stop and never a start.
C31_InitialState ==
    /\ (isRunning = TRUE /\ cameraEnabled = FALSE /\ isUserPresent = "null"
           /\ cameraError = "null" /\ seconds = 0 /\ ENABLED tick)
    /\ [](mounted /\ lastToggle = "none" =>
              /\ isRunning
              /\ ENABLED handleToggleStop
              /\ ~ENABLED handleToggleStart)
    /\ [][lastToggle = "none" /\ lastToggle' # "none" => lastToggle' = "stop"]_vars

\* The timer has ticked without any start and the first toggle, a stop, was made.
C31_Witness ==
    /\ mounted /\ lastToggle = "stop" /\ ~isRunning /\ seconds >= 1
    /\ hasMediaDevices /\ acquired = 0 /\ pendingAcq = <<>> /\ cameraError = "null"

\* C32: when an acquisition requested with the "Enable camera" button before
\* the last stop completes while the timer is still stopped, the camera stays
\* disabled and no track is live.
C32_StopCancelsPendingEnable ==
    [][ \A i \in 1..Len(pendingAcq) :
            mounted /\ lastToggle = "stop" /\ ~isRunning /\ pendingAcq[i] = "button"
                /\ getUserMediaResolve(i)
            => ~cameraEnabled' /\ liveTracks' = {} ]_vars

\* C33: when an acquisition requested with the button completes while the timer
\* runs without a camera, the timer is inactive after that step with the
\* classification Unknown, and in no state with the camera enabled and the
\* classification not Present can the tick fire.
C33_EnableWhileRunningPauses ==
    /\ [][ \A i \in 1..Len(pendingAcq) :
               mounted /\ isRunning /\ ~cameraEnabled /\ pendingAcq[i] = "button"
                   /\ getUserMediaResolve(i)
               => cameraEnabled' /\ isUserPresent' = "null" /\ ~isTimerActive' ]_vars
    /\ [](cameraEnabled /\ isUserPresent # "true" => ~ENABLED tick)

\* The camera was enabled with the button after the free-running timer had ticked.
C33_Witness ==
    /\ mounted /\ lastToggle = "none" /\ isRunning /\ cameraEnabled /\ acquired = 1
    /\ isUserPresent = "null" /\ seconds >= 1 /\ cameraError = "null"

\* C34: the late result of a call made in an earlier Sampling period is
\* discarded when it arrives during a later one, and a step that changes the
\* classification inside a Sampling period completes a sample of that period.
C34_EarlierPeriodDiscarded ==
    [][ /\ (samplerSampling /\ detectSettles("cancelled") =>
                isUserPresent' = isUserPresent /\ lastSample'.outcome = "discarded")
        /\ (isUserPresent' # isUserPresent /\ samplerSampling /\ samplerSampling' =>
                lastSample'.outcome \in {"failed", "classified"}) ]_vars

\* After a stop and a new start the first period's result arrived and was
\* discarded while the second period's call is still pending.
C34_Witness ==
    /\ samplerSampling /\ lastToggle = "start_ok" /\ acquired = 2
    /\ lastSample.outcome = "discarded" /\ inflight.live = 1 /\ isUserPresent = "null"

\* C35: whenever the camera is disabled the classification is Unknown.
C35_UnknownWhileCameraOff == ~cameraEnabled => isUserPresent = "null"

\* The camera was switched off by a stop after the user had been classified,
\* with a result still to arrive.
C35_Witness ==
    /\ mounted /\ lastToggle = "stop" /\ ~cameraEnabled /\ isUserPresent = "null"
    /\ inflight.cancelled >= 1 /\ seconds >= 1 /\ acquired >= 1

\* The last sample saw an uncovered frame, with a face when there is a detector.
EverySampleGood ==
    lastSample.outcome = "classified" /\ lastSample.frame # <<>> =>
        /\ ~MeanBelow(lastSample.frame, 25)
        /\ ~VarianceBelow(lastSample.frame, 50)
        /\ (hasFaceDetector => lastSample.faces > 0)

\* C36: with the camera enabled and run requested throughout, if from some
\* point on every sample sees a ready, uncovered frame (with a face when there
\* is a detector), then under fair scheduling of samples and ticks the
\* classification is eventually Present for good and the counter keeps
\* increasing (up to the bound of the model).
C36_EventuallyPresentAndTicking ==
    <>[]EverySampleGood =>
        /\ <>[](isUserPresent = "true")
        /\ []<>(onSecondsTickCalls = 1 \/ seconds = MaxTicks)

\* A tick has fired after a detector saw a face.
C36_Witness ==
    /\ hasFaceDetector /\ cameraEnabled /\ isRunning /\ isUserPresent = "true"
    /\ onSecondsTickCalls = 1 /\ seconds >= 1

\* C37: when an acquisition requested with the button completes while the timer
\* is stopped, the capture session becomes active and nothing else starts: run
\* stays unrequested, the classification stays Unknown, no sample is started;
\* and in no stopped state can a sample or a tick fire or a sample be pending.
C37_EnableWhileStopped ==
    /\ [][ \A i \in 1..Len(pendingAcq) :
               mounted /\ ~isRunning /\ pendingAcq[i] = "button" /\ getUserMediaResolve(i)
               => /\ cameraEnabled' /\ streamRef' # 0 /\ streamRef' \in liveTracks'
                  /\ ~isRunning' /\ isUserPresent' = "null" /\ seconds' = seconds
                  /\ inflight'.live = 0 /\ lastSample' = NoSample ]_vars
    /\ [](mounted /\ ~isRunning =>
              /\ isUserPresent = "null" /\ inflight.live = 0
              /\ ~ENABLED tick /\ ~ENABLED checkPresence)

\* The camera was enabled while the timer was stopped, after it had ticked.
C37_Witness ==
    /\ mounted /\ lastToggle = "stop" /\ ~isRunning /\ cameraEnabled
    /\ streamRef \in liveTracks /\ isUserPresent = "null" /\ seconds >= 1
    /\ inflight.live = 0

\* C38: in every state the camera is enabled exactly when the handle holds a
\* stream, and while the component is mounted with the camera enabled the held
\* stream's tracks are live.
C38_EnabledIffHandle ==
    /\ (cameraEnabled <=> streamRef # 0)
    /\ (mounted /\ cameraEnabled => streamRef \in liveTracks)

\* C39: a start made while the camera is enabled requests no acquisition and
\* keeps the handle: it sets run requested and leaves the camera flag, the
\* binding, the error and the counter as they are.
C39_StartWithCameraEnabled ==
    [][ mounted /\ ~isRunning /\ cameraEnabled /\ handleToggleStart =>
            /\ pendingAcq' = pendingAcq /\ acquired' = acquired
            /\ streamRef' = streamRef /\ srcObject' = srcObject
            /\ isRunning' /\ cameraEnabled'
            /\ cameraError' = cameraError /\ seconds' = seconds ]_vars

\* A start has been made with a camera that was enabled while stopped.
C39_Witness ==
    /\ mounted /\ lastToggle = "start_noacq" /\ isRunning /\ cameraEnabled
    /\ acquired = 1 /\ streamRef = 1 /\ liveTracks = {1} /\ pendingAcq = <<>>

====
